---- MODULE Spec2Model ----
(***************************************************************************)
(* Model of runtime/src/transaction_priority_details.rs: extraction of a   *)
(* transaction's (priority, compute_unit_limit) pair from its compute      *)
(* budget directives, through both sanitized transaction representations.  *)
(*                                                                         *)
(* u32 and u64 values are kept at full width as big-endian sequences of    *)
(* 16-bit limbs (2 limbs = u32, 4 limbs = u64), so that u32::MAX, u64::MAX *)
(* and the u32 -> u64 widening are represented exactly.                    *)
(***************************************************************************)
EXTENDS Integers, Sequences, FiniteSets, TLC

VARIABLES transaction, calls

vars == <<transaction, calls>>

\* ------------------------------------------------------------------ bounds
\* Longest instruction list of a transaction.
MaxInstr == 3

\* ------------------------------------------------------- fixed-width values
LimbBase == 2 ^ 16

LimbMax == LimbBase - 1

\* A u32 given as a natural number below 2^31.
U32(n) == << n \div LimbBase, n % LimbBase >>

\* A u64 given as a natural number below 2^31.
U64(n) == << 0, 0, n \div LimbBase, n % LimbBase >>

U32_MAX == << LimbMax, LimbMax >>

U64_MAX == << LimbMax, LimbMax, LimbMax, LimbMax >>

IsU32(v) == Len(v) = 2 /\ \A i \in 1..2 : v[i] \in 0..LimbMax

IsU64(v) == Len(v) = 4 /\ \A i \in 1..4 : v[i] \in 0..LimbMax

\* --------------------------------------------------------- Option / Result
None == << >>

Some(x) == << x >>

Ok(x) == [tag |-> "Ok", val |-> x]

Err(e) == [tag |-> "Err", val |-> e]

\* Result::ok(): Ok(v) becomes Some(v), Err(_) becomes None.
ResultOk(r) == IF r.tag = "Ok" THEN Some(r.val) ELSE None

\* ------------------------------------------------------------ program ids
ComputeBudgetProgram == "ComputeBudget111111111111111111111111111111"

SystemProgram == "11111111111111111111111111111111"

\* Account list of a compiled message: payer, recipient, then the programs.
AccountKeys == << "payer", "recipient", SystemProgram, ComputeBudgetProgram >>

\* ------------------------------------------------------------ instructions
Instruction(program_id, tag, val) ==
    [program_id |-> program_id, data |-> [tag |-> tag, val |-> val]]

\* system_instruction::transfer(&payer, &recipient, 1)
system_instruction_transfer == Instruction(SystemProgram, "Transfer", U64(1))

\* ComputeBudgetInstruction::request_heap_frame(bytes)
request_heap_frame(bytes) ==
    Instruction(ComputeBudgetProgram, "RequestHeapFrame", bytes)

\* ComputeBudgetInstruction::set_compute_unit_limit(units)
set_compute_unit_limit(units) ==
    Instruction(ComputeBudgetProgram, "SetComputeUnitLimit", units)

\* ComputeBudgetInstruction::set_compute_unit_price(micro_lamports)
set_compute_unit_price(micro_lamports) ==
    Instruction(ComputeBudgetProgram, "SetComputeUnitPrice", micro_lamports)

LimitValues == { U32(101), U32_MAX }

PriceValues == { U64(1000), U64_MAX }

HeapValues == { U32(32 * 1024) }

\* Instructions of other programs; one of them carries a payload that would
\* be a directive if it were addressed to the compute-budget program.
UnrelatedInstructions ==
    { system_instruction_transfer,
      Instruction(SystemProgram, "SetComputeUnitLimit", U32(7)) }

ValidBudgetInstructions ==
    { set_compute_unit_limit(v) : v \in LimitValues }
        \cup { set_compute_unit_price(p) : p \in PriceValues }
        \cup { request_heap_frame(b) : b \in HeapValues }

\* A truncated "set compute unit limit" payload, and a directive kind the
\* compute-budget program does not know.
BadBudgetInstructions ==
    { Instruction(ComputeBudgetProgram, "SetComputeUnitLimit", << 101 >>),
      Instruction(ComputeBudgetProgram, "Unrecognized", U32(1)) }

Instructions ==
    UnrelatedInstructions \cup ValidBudgetInstructions \cup BadBudgetInstructions

SeqsUpTo(S, n) == UNION { [1..k -> S] : k \in 0..n }

\* --------------------------------------------------------------- messages
IndexOf(seq, x) == CHOOSE i \in 1..Len(seq) : seq[i] = x

\* Message::new: every instruction is compiled against the account list.
Message_new(instructions) ==
    [account_keys |-> AccountKeys,
     instructions |->
        [i \in 1..Len(instructions) |->
            [program_id_index |-> IndexOf(AccountKeys, instructions[i].program_id),
             data |-> instructions[i].data]]]

\* program_instructions_iter: (program id, compiled instruction) pairs in
\* the message's instruction order, program ids resolved in the account list.
program_instructions_iter(message) ==
    [i \in 1..Len(message.instructions) |->
        << message.account_keys[message.instructions[i].program_id_index],
           message.instructions[i] >>]

SanitizedVersionedTransaction_try_new(tx) ==
    [repr |-> "SanitizedVersionedTransaction", message |-> Message_new(tx)]

SanitizedTransaction_try_from_legacy_transaction(tx) ==
    [repr |-> "SanitizedTransaction", message |-> Message_new(tx)]

\* SanitizedVersionedTransaction::get_message
get_message(self) == self.message

\* SanitizedTransaction::message
message(self) == self.message

\* ------------------------------------------------- compute-budget decoder
DEFAULT_INSTRUCTION_COMPUTE_UNIT_LIMIT == 200000

\* Decoding of one directive payload: the kind must be recognized and the
\* value must have the kind's width.
try_from_slice_unchecked(data) ==
    IF data.tag \in {"SetComputeUnitLimit", "RequestHeapFrame"} /\ IsU32(data.val)
    THEN Ok(data)
    ELSE IF data.tag = "SetComputeUnitPrice" /\ IsU64(data.val)
    THEN Ok(data)
    ELSE Err("InvalidInstructionData")

RECURSIVE ScanInstructions(_, _, _)
\* One pass over the pairs from position i; acc holds the directives seen.
ScanInstructions(instructions, i, acc) ==
    IF i > Len(instructions) THEN Ok(acc)
    ELSE LET program_id == instructions[i][1]
             instruction == instructions[i][2]
         IN  IF program_id = ComputeBudgetProgram
             THEN LET d == try_from_slice_unchecked(instruction.data)
                  IN  IF d.tag = "Err" THEN d
                      ELSE IF d.val.tag = "SetComputeUnitLimit"
                      THEN ScanInstructions(instructions, i + 1,
                              [acc EXCEPT !.updated_compute_unit_limit = Some(d.val.val)])
                      ELSE IF d.val.tag = "SetComputeUnitPrice"
                      THEN ScanInstructions(instructions, i + 1,
                              [acc EXCEPT !.updated_compute_unit_price = Some(d.val.val)])
                      ELSE ScanInstructions(instructions, i + 1, acc)
             ELSE ScanInstructions(instructions, i + 1,
                     [acc EXCEPT !.num_non_compute_budget_instructions = @ + 1])

\* The decoder: ComputeBudgetLimits (unit price, unit limit) or an error.
process_compute_budget_instructions(instructions, feature_set) ==
    LET r == ScanInstructions(instructions, 1,
                [updated_compute_unit_limit |-> None,
                 updated_compute_unit_price |-> None,
                 num_non_compute_budget_instructions |-> 0])
    IN  IF r.tag = "Err" THEN r
        ELSE Ok([compute_unit_price |->
                    IF r.val.updated_compute_unit_price = None
                    THEN U64(0) ELSE r.val.updated_compute_unit_price[1],
                 compute_unit_limit |->
                    IF r.val.updated_compute_unit_limit = None
                    THEN U32(r.val.num_non_compute_budget_instructions
                                * DEFAULT_INSTRUCTION_COMPUTE_UNIT_LIMIT)
                    ELSE r.val.updated_compute_unit_limit[1]])

\* ------------------------------------------------------- the extractor
TransactionPriorityDetails(priority, compute_unit_limit) ==
    [priority |-> priority, compute_unit_limit |-> compute_unit_limit]

\* Mutant: the limit is capped at 1_400_000 before it is widened.
u64_from_clamped(x) ==
    IF x[1] > 21 \/ (x[1] = 21 /\ x[2] > 23744)
    THEN << 0, 0, 21, 23744 >>
    ELSE << 0, 0 >> \o x

\* Mutant: only the low 16 bits survive the conversion.
u64_from_truncated(x) == << 0, 0, 0, x[2] >>

\* Mutant: the value is widened as a signed integer.
u64_from_sign_extended(x) ==
    IF x[1] >= LimbBase \div 2 THEN << LimbMax, LimbMax >> \o x ELSE << 0, 0 >> \o x

\* u64::from(u32): zero extension.
u64_from(x) == << 0, 0 >> \o x

\* FeatureSet::default() with one feature activated; the flag plays no part.
feature_set_of_call(round_compute_unit_price_enabled) ==
    { "add_set_tx_loaded_accounts_data_size_instruction" }

\* Mutant: the two fields of the result are filled from each other's source.
process_compute_budget_instruction_swapped(instructions, round_compute_unit_price_enabled) ==
    LET feature_set == feature_set_of_call(round_compute_unit_price_enabled)
        compute_budget_limits ==
            ResultOk(process_compute_budget_instructions(instructions, feature_set))
    IN  IF compute_budget_limits = None THEN None
        ELSE Some(TransactionPriorityDetails(
                    u64_from(compute_budget_limits[1].compute_unit_limit),
                    compute_budget_limits[1].compute_unit_price))

\* Mutant: priority is taken from the unit limit instead of the unit price.
process_compute_budget_instruction_priority_from_limit(instructions, round_compute_unit_price_enabled) ==
    LET feature_set == feature_set_of_call(round_compute_unit_price_enabled)
        compute_budget_limits ==
            ResultOk(process_compute_budget_instructions(instructions, feature_set))
    IN  IF compute_budget_limits = None THEN None
        ELSE Some(TransactionPriorityDetails(
                    u64_from(compute_budget_limits[1].compute_unit_limit),
                    u64_from(compute_budget_limits[1].compute_unit_limit)))

\* Mutant: a decoder error is replaced by default limits (unwrap_or_default).
process_compute_budget_instruction_default_on_error(instructions, round_compute_unit_price_enabled) ==
    LET feature_set == feature_set_of_call(round_compute_unit_price_enabled)
        compute_budget_limits ==
            ResultOk(process_compute_budget_instructions(instructions, feature_set))
    IN  IF compute_budget_limits = None
        THEN Some(TransactionPriorityDetails(U64(0), u64_from(U32(0))))
        ELSE Some(TransactionPriorityDetails(
                    compute_budget_limits[1].compute_unit_price,
                    u64_from(compute_budget_limits[1].compute_unit_limit)))

\* Mutant: the unit price passes through a 32-bit intermediate.
process_compute_budget_instruction_price_as_u32(instructions, round_compute_unit_price_enabled) ==
    LET feature_set == feature_set_of_call(round_compute_unit_price_enabled)
        compute_budget_limits ==
            ResultOk(process_compute_budget_instructions(instructions, feature_set))
    IN  IF compute_budget_limits = None THEN None
        ELSE Some(TransactionPriorityDetails(
                    << 0, 0 >> \o SubSeq(compute_budget_limits[1].compute_unit_price, 3, 4),
                    u64_from(compute_budget_limits[1].compute_unit_limit)))

\* Mutant: with the flag set, the unit price is rounded down to a multiple
\* of 2^16.
process_compute_budget_instruction_rounding(instructions, round_compute_unit_price_enabled) ==
    LET feature_set == feature_set_of_call(round_compute_unit_price_enabled)
        compute_budget_limits ==
            ResultOk(process_compute_budget_instructions(instructions, feature_set))
    IN  IF compute_budget_limits = None THEN None
        ELSE Some(TransactionPriorityDetails(
                    IF round_compute_unit_price_enabled
                    THEN SubSeq(compute_budget_limits[1].compute_unit_price, 1, 3) \o << 0 >>
                    ELSE compute_budget_limits[1].compute_unit_price,
                    u64_from(compute_budget_limits[1].compute_unit_limit)))

process_compute_budget_instruction(instructions, round_compute_unit_price_enabled) ==
    LET feature_set == feature_set_of_call(round_compute_unit_price_enabled)
        compute_budget_limits ==
            ResultOk(process_compute_budget_instructions(instructions, feature_set))
    IN  IF compute_budget_limits = None THEN None
        ELSE Some(TransactionPriorityDetails(
                    compute_budget_limits[1].compute_unit_price,
                    u64_from(compute_budget_limits[1].compute_unit_limit)))

Reverse(s) == [i \in 1..Len(s) |-> s[Len(s) + 1 - i]]

\* Mutant: the instruction iterator is consumed from its end.
SanitizedVersionedTransaction_get_transaction_priority_details_reversed(self, round_compute_unit_price_enabled) ==
    process_compute_budget_instruction(
        Reverse(program_instructions_iter(get_message(self))),
        round_compute_unit_price_enabled)

SanitizedVersionedTransaction_get_transaction_priority_details(self, round_compute_unit_price_enabled) ==
    process_compute_budget_instruction(
        program_instructions_iter(get_message(self)),
        round_compute_unit_price_enabled)

\* Mutant: the first instruction of the message is skipped.
SanitizedTransaction_get_transaction_priority_details_skip_first(self, round_compute_unit_price_enabled) ==
    process_compute_budget_instruction(
        (LET it == program_instructions_iter(message(self))
         IN  IF it = << >> THEN it ELSE Tail(it)),
        round_compute_unit_price_enabled)

SanitizedTransaction_get_transaction_priority_details(self, round_compute_unit_price_enabled) ==
    process_compute_budget_instruction(
        program_instructions_iter(message(self)),
        round_compute_unit_price_enabled)

\* ------------------------------------------------------------ state machine
Reprs == { "SanitizedVersionedTransaction", "SanitizedTransaction" }

TypeOK ==
    /\ transaction \in SeqsUpTo(Instructions, MaxInstr)
    /\ DOMAIN calls = Reprs \X BOOLEAN

\* A transaction has been built; nothing has been asked of it yet.
Init ==
    /\ transaction \in SeqsUpTo(Instructions, MaxInstr)
    /\ calls = [c \in Reprs \X BOOLEAN |-> None]

\* sanitized_versioned_transaction.get_transaction_priority_details(flag)
CallVersioned ==
    \E flag \in BOOLEAN :
        /\ calls' = [calls EXCEPT ![<<"SanitizedVersionedTransaction", flag>>] =
                Some([ret |-> SanitizedVersionedTransaction_get_transaction_priority_details(
                                 SanitizedVersionedTransaction_try_new(transaction), flag),
                      feature_set |-> feature_set_of_call(flag)])]
        /\ UNCHANGED transaction

\* sanitized_transaction.get_transaction_priority_details(flag)
CallLegacy ==
    \E flag \in BOOLEAN :
        /\ calls' = [calls EXCEPT ![<<"SanitizedTransaction", flag>>] =
                Some([ret |-> SanitizedTransaction_get_transaction_priority_details(
                                 SanitizedTransaction_try_from_legacy_transaction(transaction), flag),
                      feature_set |-> feature_set_of_call(flag)])]
        /\ UNCHANGED transaction

Next == CallVersioned \/ CallLegacy

Spec == Init /\ [][Next]_vars

\* ------------------------------------------------- vocabulary of the claims
Called(c) == calls[c] # None

Ret(c) == calls[c][1].ret

IsBudget(ix) == ix.program_id = ComputeBudgetProgram

\* Positions of the compute-budget directives of a kind in the transaction.
PositionsOf(kind) ==
    { i \in 1..Len(transaction) :
        IsBudget(transaction[i]) /\ transaction[i].data.tag = kind }

BudgetPositions == { i \in 1..Len(transaction) : IsBudget(transaction[i]) }

Max(S) == CHOOSE m \in S : \A x \in S : x <= m

\* Value carried by the last directive of a kind.
LastValue(kind) == transaction[Max(PositionsOf(kind))].data.val

\* A compute-budget payload of a recognized kind carrying a value of the
\* kind's width.
WellFormed(ix) ==
    \/ ix.data.tag \in {"SetComputeUnitLimit", "RequestHeapFrame"} /\ IsU32(ix.data.val)
    \/ ix.data.tag = "SetComputeUnitPrice" /\ IsU64(ix.data.val)

AllBudgetWellFormed == \A i \in BudgetPositions : WellFormed(transaction[i])

ZeroExtended(v) == << 0, 0, v[1], v[2] >>

\* The default limit of the transaction: the per-instruction allowance times
\* the number of instructions that are not compute-budget directives.
DefaultLimit ==
    ZeroExtended(U32((Len(transaction) - Cardinality(BudgetPositions))
                        * DEFAULT_INSTRUCTION_COMPUTE_UNIT_LIMIT))

RECURSIVE Without(_, _)
\* The sequence s without the elements at the positions P.
Without(s, P) ==
    IF s = << >> THEN << >>
    ELSE LET n == Len(s)
             rest == Without(SubSeq(s, 1, n - 1), P)
         IN  IF n \in P THEN rest ELSE Append(rest, s[n])

\* Extraction applied directly to a list of instructions.
Extract(instructions) ==
    process_compute_budget_instruction(
        program_instructions_iter(Message_new(instructions)), FALSE)

Cells == Reprs \X BOOLEAN

\* ---------------------------------------------------------------- claims

C2_MalformedYieldsNone ==
    \A c \in Cells :
        (Called(c) /\ ~AllBudgetWellFormed) => Ret(c) = None

C2_Witness ==
    \E c \in Cells :
        /\ Called(c)
        /\ Len(transaction) = 3
        /\ WellFormed(transaction[1]) /\ IsBudget(transaction[1])
        /\ IsBudget(transaction[2]) /\ ~WellFormed(transaction[2])
        /\ WellFormed(transaction[3]) /\ IsBudget(transaction[3])
        /\ Ret(c) = None

\* C3: a transaction without any compute-budget instruction yields Some
\* with priority 0 and the default limit: the per-instruction allowance
\* times the number of instructions.
C3_NoDirectiveDefaults ==
    \A c \in Cells :
        (Called(c) /\ BudgetPositions = {}) =>
            Ret(c) = Some([priority |-> U64(0),
                           compute_unit_limit |->
                              ZeroExtended(U32(Len(transaction)
                                  * DEFAULT_INSTRUCTION_COMPUTE_UNIT_LIMIT))])

C3_Witness ==
    \E c \in Cells :
        /\ Called(c)
        /\ BudgetPositions = {}
        /\ Len(transaction) = 2
        /\ Ret(c) # None
        /\ Ret(c)[1].compute_unit_limit = << 0, 0, 6, 6784 >>

\* C4: when the only compute-budget directive is one valid request heap
\* frame, the result is that of the transaction without the directive:
\* priority 0 and the default limit, which for one other instruction is
\* DEFAULT_INSTRUCTION_COMPUTE_UNIT_LIMIT.
C4_HeapFrameIgnored ==
    \A c \in Cells :
        ( /\ Called(c)
          /\ Cardinality(BudgetPositions) = 1
          /\ PositionsOf("RequestHeapFrame") = BudgetPositions
          /\ AllBudgetWellFormed ) =>
            /\ Ret(c) = Some([priority |-> U64(0), compute_unit_limit |-> DefaultLimit])
            /\ Ret(c) = Extract(Without(transaction, BudgetPositions))
            /\ Len(transaction) = 2 =>
                  Ret(c)[1].compute_unit_limit =
                      ZeroExtended(U32(DEFAULT_INSTRUCTION_COMPUTE_UNIT_LIMIT))

C4_Witness ==
    \E c \in Cells :
        /\ Called(c)
        /\ transaction = << system_instruction_transfer, request_heap_frame(U32(32 * 1024)) >>
        /\ Ret(c) # None

C6_PriceReflected ==
    \A c \in Cells :
        ( /\ Called(c)
          /\ AllBudgetWellFormed
          /\ Cardinality(PositionsOf("SetComputeUnitPrice")) = 1
          /\ PositionsOf("SetComputeUnitLimit") = {} ) =>
            /\ Ret(c) = Some([priority |-> LastValue("SetComputeUnitPrice"),
                              compute_unit_limit |-> DefaultLimit])
            /\ Extract(Without(transaction, PositionsOf("SetComputeUnitPrice"))) # None
            /\ Ret(c)[1].compute_unit_limit =
                  Extract(Without(transaction,
                          PositionsOf("SetComputeUnitPrice")))[1].compute_unit_limit

C6_Witness ==
    \E c \in Cells :
        /\ Called(c)
        /\ transaction = << system_instruction_transfer, set_compute_unit_price(U64_MAX) >>
        /\ Ret(c) # None

C8_RepresentationIndependent ==
    \A flag \in BOOLEAN :
        ( /\ Called(<<"SanitizedVersionedTransaction", flag>>)
          /\ Called(<<"SanitizedTransaction", flag>>) ) =>
            Ret(<<"SanitizedVersionedTransaction", flag>>)
                = Ret(<<"SanitizedTransaction", flag>>)

C8_Witness ==
    /\ Called(<<"SanitizedVersionedTransaction", FALSE>>)
    /\ Called(<<"SanitizedTransaction", FALSE>>)
    /\ Len(transaction) = 3
    /\ IsBudget(transaction[1]) /\ ~IsBudget(transaction[2])
    /\ Ret(<<"SanitizedTransaction", FALSE>>) # None

\* C9: the flag round_compute_unit_price_enabled changes neither the
\* result nor the feature set given to the decoder.
C9_FlagIsNoOp ==
    \A r \in Reprs :
        (Called(<<r, TRUE>>) /\ Called(<<r, FALSE>>)) =>
            /\ Ret(<<r, TRUE>>) = Ret(<<r, FALSE>>)
            /\ calls[<<r, TRUE>>][1].feature_set = calls[<<r, FALSE>>][1].feature_set

C9_Witness ==
    \E r \in Reprs :
        /\ Called(<<r, TRUE>>) /\ Called(<<r, FALSE>>)
        /\ PositionsOf("SetComputeUnitPrice") # {}
        /\ Ret(<<r, TRUE>>) # None
        /\ Ret(<<r, TRUE>>)[1].priority = U64_MAX

\* C10: the result is None exactly when the decoder returns an error;
\* otherwise it is Some whose priority is the decoder's unit price and whose
\* compute_unit_limit is the decoder's 32-bit unit limit zero-extended, so
\* the limit never exceeds 2^32 - 1 and both fields are present together.
C10_MirrorsDecoder ==
    \A c \in Cells :
        Called(c) =>
            LET d == process_compute_budget_instructions(
                         program_instructions_iter(Message_new(transaction)),
                         calls[c][1].feature_set)
            IN  /\ (Ret(c) = None) <=> (d.tag = "Err")
                /\ d.tag = "Ok" =>
                      /\ Ret(c) # None
                      /\ DOMAIN Ret(c)[1] = {"priority", "compute_unit_limit"}
                      /\ Ret(c)[1].priority = d.val.compute_unit_price
                      /\ IsU64(Ret(c)[1].priority)
                      /\ IsU64(Ret(c)[1].compute_unit_limit)
                      /\ Ret(c)[1].compute_unit_limit[1] = 0
                      /\ Ret(c)[1].compute_unit_limit[2] = 0
                      /\ SubSeq(Ret(c)[1].compute_unit_limit, 3, 4) = d.val.compute_unit_limit

C10_Witness ==
    \E c \in Cells :
        /\ Called(c)
        /\ Ret(c) # None
        /\ Ret(c)[1].compute_unit_limit = ZeroExtended(U32_MAX)
        /\ Ret(c)[1].priority = U64_MAX

====
